---- MODULE Spec2Model ----
(***************************************************************************)
(* Cursor pagination of stripe-rs (src/params.rs): List<T>, the page       *)
(* fetcher List::get_next, List::next, and the two List::get_all variants  *)
(* (the stream built with futures_util::stream::unfold, and the blocking   *)
(* loop).                                                                  *)
(*                                                                         *)
(* Strings are sequences of one-character strings, Option<T> is a sequence *)
(* of length 0 (None) or 1 (Some), Result<T, E> is a pair <<"Ok", v>> or   *)
(* <<"Err", e>>.                                                           *)
(***************************************************************************)
EXTENDS Integers, Sequences, FiniteSets, TLC

\* ------------------------------------------------------------------ bounds
\* Longest data vector of a page.
MaxPageLen == 2
\* Most get_next invocations of one walk.
MaxFetches == 2

\* Longest argument of to_snakecase, the strings of its unit test aside.
MaxCamelLen == 3

\* ------------------------------------------------------- Option and Result
None == <<>>
Some(x) == <<x>>
IsSome(o) == Len(o) = 1
Unwrap(o) == o[1]

Ok(v) == <<"Ok", v>>
Err(e) == <<"Err", e>>
IsOk(r) == r[1] = "Ok"
IsErr(r) == r[1] = "Err"

\* ----------------------------------------------------------------- strings
\* The version prefix tested and stripped by get_next.
V1 == <<"/", "v", "1", "/">>
\* "starting_after=", the literal of the two format! calls of get_next.
StartingAfter ==
  <<"s", "t", "a", "r", "t", "i", "n", "g", "_", "a", "f", "t", "e", "r", "=">>

\* str::starts_with
StartsWith(s, p) ==
  /\ Len(s) >= Len(p)
  /\ SubSeq(s, 1, Len(p)) = p

\* str::trim_start_matches: every leading repetition of p is removed.
RECURSIVE TrimStartMatches(_, _)
TrimStartMatches(s, p) ==
  IF Len(p) > 0 /\ StartsWith(s, p)
  THEN TrimStartMatches(SubSeq(s, Len(p) + 1, Len(s)), p)
  ELSE s

\* str::contains(char)
Contains(s, c) == \E i \in 1..Len(s) : s[i] = c

\* A reversal that was left out.
ReverseSkipped(s) == s

\* Vec::reverse
Reverse(s) == [i \in 1..Len(s) |-> s[Len(s) + 1 - i]]

\* ------------------------------------------------------------ to_snakecase
UpperCase == <<"A", "B", "C", "D", "E", "F", "G", "H", "I", "J", "K", "L", "M", "N", "O", "P", "Q", "R", "S", "T", "U", "V", "W", "X", "Y", "Z">>
LowerCase == <<"a", "b", "c", "d", "e", "f", "g", "h", "i", "j", "k", "l", "m", "n", "o", "p", "q", "r", "s", "t", "u", "v", "w", "x", "y", "z">>

\* char::is_uppercase on an ASCII character
IsUppercase(ch) == \E k \in 1..Len(UpperCase) : UpperCase[k] = ch

\* ch.to_lowercase().next().unwrap_or(ch) on an ASCII character
ToLowercase(ch) ==
  IF IsUppercase(ch)
  THEN LowerCase[CHOOSE k \in 1..Len(UpperCase) : UpperCase[k] = ch]
  ELSE ch

\* The test for '_' with the position left out.
NeedsUnderscoreAnywhere(i, peek) == ~IsUppercase(peek)

\* `i > 0 && !chars.peek().unwrap_or(&'A').is_uppercase()`, i counting the
\* characters already taken and peek being the next character or 'A'.
NeedsUnderscore(i, peek) == i > 0 /\ ~IsUppercase(peek)

\* The loop of to_snakecase from character number pos, snake being what has
\* been pushed.
RECURSIVE SnakeLoop(_, _, _)
SnakeLoop(str, pos, acc) ==
  IF pos > Len(str) THEN acc
  ELSE LET ch == str[pos]
           peek == IF pos < Len(str) THEN str[pos + 1] ELSE "A"
           pushed ==
             IF IsUppercase(ch)
             THEN (IF NeedsUnderscore(pos - 1, peek) THEN acc \o <<"_">> ELSE acc)
                    \o <<ToLowercase(ch)>>
             ELSE acc \o <<ch>>
       IN SnakeLoop(str, pos + 1, pushed)

\* to_snakecase
ToSnakecase(str) == SnakeLoop(str, 1, <<>>)

\* ------------------------------------------------------------------ errors
\* Error::Unsupported("URL for fetching additional data uses different API version")
Unsupported == [error |-> "Unsupported"]
\* Failures of the transport (network, status, deserialization).
TransportErrors == {[error |-> "Http"], [error |-> "Deserialize"]}

\* ------------------------------------------------------------ input domains
\* Items are stripe objects; only their id matters to pagination.
Ids == {<<"a">>, <<"b">>}
Items == [id : Ids]
\* Object::id
Id(t) == t.id
\* Paginate::cursor for an Object: its id.
Cursor(t) == Id(t)

\* Urls a page may carry: plain, with a query string, without the version
\* prefix, and with the prefix twice.
Urls ==
  { V1 \o <<"w">>,
    V1 \o <<"w", "?", "x">>,
    <<"w">>,
    V1 \o V1 \o <<"w">> }
\* The params field: never set, set from an empty struct, set to "l".
ParamsSet == {None, Some(<<>>), Some(<<"l">>)}
\* The total_count field.
TotalCounts == {None, Some(3)}

\* The characters the arguments of to_snakecase are made of.
CamelChars == {"a", "b", "C", "D", "_"}
\* The arguments of the unit test tests::to_snakecase.
TestedCamels ==
  { <<"s", "n", "a", "k", "e", "_", "c", "a", "s", "e">>,
    <<"C", "a", "m", "e", "l", "C", "a", "s", "e">>,
    <<"X", "M", "L", "H", "t", "t", "p", "R", "e", "q", "u", "e", "s", "t">>,
    <<"U", "P", "P", "E", "R">>,
    <<"l", "o", "w", "e", "r">> }

RECURSIVE SeqsUpTo(_, _)
SeqsUpTo(S, n) ==
  IF n = 0 THEN {<<>>}
  ELSE LET shorter == SeqsUpTo(S, n - 1)
       IN shorter \cup {Append(s, x) : s \in {t \in shorter : Len(t) = n - 1}, x \in S}
\* The data of a page: up to MaxPageLen objects, neighbours being different
\* objects (the server lists an object once).
NeighboursDiffer(s) == \A i \in 1..(Len(s) - 1) : s[i] # s[i + 1]
DataVecs == {s \in SeqsUpTo(Items, MaxPageLen) : NeighboursDiffer(s)}

\* struct List<T>
Lists ==
  [data : DataVecs, has_more : BOOLEAN, total_count : TotalCounts,
   url : Urls, params : ParamsSet]
\* Urls and total_count of the pages the server answers with: the endpoint
\* with and without the version prefix, and no total_count.
WireUrls == {V1 \o <<"w">>, <<"w">>}
WireTotalCounts == {None}
\* A List as deserialized from a response: params is #[serde(skip)] with
\* #[serde(default)], so it is None.
WireLists ==
  [data : DataVecs, has_more : BOOLEAN, total_count : WireTotalCounts,
   url : WireUrls, params : {None}]

\* ---------------------------------------------------------------- get_next
\* A target built without looking for an existing query string.
GetNextTargetAlwaysQuestion(url, last_id, params) ==
  LET stripped == TrimStartMatches(url, V1)
      withCursor == stripped \o <<"?">> \o StartingAfter \o last_id
  IN IF IsSome(params) /\ Len(Unwrap(params)) > 0
     THEN withCursor \o <<"&">> \o Unwrap(params)
     ELSE withCursor

\* The request target built by get_next for a url that has the prefix.
GetNextTarget(url, last_id, params) ==
  LET stripped == TrimStartMatches(url, V1)
      withCursor ==
        IF Contains(stripped, "?")
        THEN stripped \o <<"&">> \o StartingAfter \o last_id
        ELSE stripped \o <<"?">> \o StartingAfter \o last_id
  IN IF IsSome(params) /\ Len(Unwrap(params)) > 0
     THEN withCursor \o <<"&">> \o Unwrap(params)
     ELSE withCursor

\* TRUE when get_next dispatches client.get, FALSE when it returns
\* err(Error::Unsupported(..)) without a request.
GetNextDispatches(url) == StartsWith(url, V1)

\* What client.get may complete with.
ClientGetOutcomes == {Ok(l) : l \in WireLists} \cup {Err(e) : e \in TransportErrors}

\* A response returned as deserialized, params not re-attached.
StampParamsDropped(resp, params) == resp

\* get_next's mapping of the response under feature "blocking":
\* list.params = params.map(|s| s.to_string()).
StampParamsBlocking(resp, params) ==
  IF IsOk(resp) THEN Ok([resp[2] EXCEPT !.params = params]) ELSE resp

\* get_next's mapping of the response without feature "blocking":
\* list.params is overwritten only when params is Some.
StampParamsAsync(resp, params) ==
  IF IsOk(resp)
  THEN IF IsSome(params) THEN Ok([resp[2] EXCEPT !.params = params]) ELSE resp
  ELSE resp


\* ------------------------------------------------------------ List::next
\* The page returned for an empty one with its total_count forgotten.
NextOfEmptyWithoutCount(self) ==
  [data |-> <<>>, has_more |-> FALSE, total_count |-> None,
   url |-> self.url, params |-> self.params]

\* The page List::next returns without a request when self.data is empty.
NextOfEmpty(self) ==
  [data |-> <<>>, has_more |-> FALSE, total_count |-> self.total_count,
   url |-> self.url, params |-> self.params]

\* The first item of the page taken for the last.
FirstItem(data) == data[1]

\* self.data.last(), the item whose cursor List::next sends.
LastItem(data) == data[Len(data)]

\* ------------------------------------------------------ stream get_all
\* Vec::pop on a non-empty vector: the removed item and what is left.
PopVal(data) == data[Len(data)]
PopRest(data) == SubSeq(data, 1, Len(data) - 1)

\* The page counted as exhausted while one item is still buffered.
IsExhaustedOneEarly(rest) == Len(rest) <= 1

\* `list.data.is_empty()` after the pop: the popped item was the page's last.
IsExhausted(rest) == rest = <<>>

\* The has_more test with its negation lost.
IsFinalPageInverted(list) == list.has_more

\* `if !list.has_more` of the closure: the walk stops after this item.
IsFinalPage(list) == ~list.has_more

\* The element the closure yields when the awaited fetch failed with e.
YieldOnErr(v, e) == <<Err(e)>>

\* ----------------------------------------------------- blocking get_all
\* The loop left on an error with what was accumulated.
ReturnPartialOnErr(acc, e) == Ok(acc)

\* The loop going on for as long as pages are not empty.
HasMoreWhileNonEmpty(list) == list.data # <<>>

\* `if next.has_more` of the loop.
HasMore(list) == list.has_more

\* An extension that puts the new items in front.
ExtendInFront(acc, items) == items \o acc

\* Vec::extend: data.extend(next.data)
Extend(acc, items) == acc \o items

\* `next.next(&client)?` on Err(e): the function returns Err(e).
ReturnOnErr(acc, e) == Err(e)

\* ------------------------------------------------------------------- state
VARIABLES
  blocking,   \* cfg(feature = "blocking"): which get_all and get_next are built
  state,      \* stream: the unfold state, Option<List> (data reversed)
  val,        \* stream: the popped item held across resp.await
  pc,         \* stream: "idle" between polls, "awaiting" in resp.await, "ended";
              \* blocking get_all: "loop", "blocked" in client.get, "returned";
              \* List::next: "direct", "pending" while the response is due
  out,        \* stream: the elements yielded so far
  next,       \* blocking get_all: the local `next`
  data,       \* blocking get_all: the local `data`
  ret,        \* blocking get_all: Option of the returned Result
  calls,      \* history: the get_next invocations, in order
  pages,      \* history: the pages of the walk in server order, pages[1] = self
  me,         \* the number of the walk these variables belong to
  requests,   \* history: the client.get invocations on the shared Client
  camel,      \* to_snakecase: the argument
  snake,      \* to_snakecase: Option of the returned String
  other       \* Option of a second stream sharing the Client: what it owns

vars == <<blocking, state, val, pc, out, next, data, ret, calls, pages, me,
          requests, camel, snake, other>>

\* List::default()
DefaultList ==
  [data |-> <<>>, has_more |-> FALSE, total_count |-> None,
   url |-> <<>>, params |-> None]

\* A get_next invocation from page number `from`: its arguments, the target
\* handed to client.get (None when no request is made) and its result
\* (None while the request is outstanding, else Ok(n) for pages[n] or Err(e)).
Call(from, url, last_id, params, reply) ==
  [page |-> from, url |-> url, last_id |-> last_id, params |-> params,
   sent |-> IF GetNextDispatches(url)
            THEN Some(GetNextTarget(url, last_id, params)) ELSE None,
   reply |-> reply]

\* client.get(&url) of get_next call number i of walk w: one request, not yet
\* answered.
Dispatch(w, i, target) ==
  <<[walk |-> w, call |-> i, target |-> target, outcome |-> None]>>

\* A response taken for the answer of call i of every walk.
AnswerAnyWalk(reqs, w, i, r) ==
  [j \in 1..Len(reqs) |->
     IF reqs[j].call = i /\ reqs[j].outcome = None
     THEN [reqs[j] EXCEPT !.outcome = Some(r)] ELSE reqs[j]]

\* The request of call i of walk w answered with r.
Answer(reqs, w, i, r) ==
  [j \in 1..Len(reqs) |->
     IF reqs[j].walk = w /\ reqs[j].call = i /\ reqs[j].outcome = None
     THEN [reqs[j] EXCEPT !.outcome = Some(r)]
     ELSE reqs[j]]

\* TRUE for a blocking get_all that is run, as walk 2, over the chain of pages
\* a stream get_all has walked as walk 1.
Replaying == blocking /\ me = 2

\* What the server answers while two streams walk it: a page of one item at
\* "/v1/w", with or without has_more, or the error Http.
TwoWalkOutcomes ==
  {r \in ClientGetOutcomes :
     IF IsOk(r) THEN Len(r[2].data) = 1 /\ r[2].url = <<"/", "v", "1", "/", "w">>
     ELSE r[2] = [error |-> "Http"]}

\* What the request of call i for target may complete with: anything the
\* server may answer (with two streams, anything of TwoWalkOutcomes), or, for
\* a blocking get_all run over the chain of walk 1, what walk 1 was answered
\* on that request.
TransportOutcomes(i, target) ==
  IF Replaying
  THEN {Unwrap(requests[j].outcome) :
          j \in {k \in 1..Len(requests) :
                   /\ requests[k].walk = 1 /\ requests[k].call = i
                   /\ requests[k].target = target
                   /\ requests[k].outcome # None}}
  ELSE IF IsSome(other) THEN TwoWalkOutcomes
  ELSE ClientGetOutcomes

\* A failed request sent a second time.
RetryOnGetErr(req) == <<[req EXCEPT !.outcome = None]>>

\* The requests get_next makes after client.get failed: none, the error is
\* handed on (`Err(e) => Err(e)`, and Result::map under "blocking").
OnGetErr(req) == <<>>

\* The state shared by the initial states: walk 1 alone, nothing requested.
InitShared ==
  /\ me = 1
  /\ requests = <<>>
  /\ camel = <<>>
  /\ snake = None
  /\ other = None

InitStream(self) ==
  /\ blocking = FALSE
  /\ state = Some([self EXCEPT !.data = Reverse(self.data)])
  /\ val = None
  /\ pc = "idle"
  /\ out = <<>>
  /\ next = DefaultList
  /\ data = <<>>
  /\ ret = None
  /\ calls = <<>>
  /\ pages = <<self>>
  /\ InitShared

InitBlocking(self) ==
  /\ blocking = TRUE
  /\ state = None
  /\ val = None
  /\ pc = "loop"
  /\ out = <<>>
  /\ next = self
  /\ data = <<>>
  /\ ret = None
  /\ calls = <<>>
  /\ pages = <<self>>
  /\ InitShared

Init == \E self \in Lists : InitStream(self) \/ InitBlocking(self)

\* No walk: the initial page is List::default() and nothing is polled.
InitIdle ==
  /\ blocking = FALSE
  /\ state = None
  /\ val = None
  /\ pc = "unused"
  /\ out = <<>>
  /\ next = DefaultList
  /\ data = <<>>
  /\ ret = None
  /\ calls = <<>>
  /\ pages = <<DefaultList>>
  /\ me = 1
  /\ requests = <<>>
  /\ other = None

\* to_snakecase is about to be called with camel.
InitSnake ==
  /\ InitIdle
  /\ camel \in SeqsUpTo(CamelChars, MaxCamelLen) \cup TestedCamels
  /\ snake = None

\* to_snakecase(camel) returns.
CallToSnakecase ==
  /\ snake = None
  /\ snake' = Some(ToSnakecase(camel))
  /\ UNCHANGED <<blocking, state, val, pc, out, next, data, ret, calls, pages,
                 me, requests, camel, other>>

NextSnake == CallToSnakecase
SpecSnake == InitSnake /\ [][NextSnake]_vars

\* ------------------------------------------------- stream get_all: actions
StreamFrame == UNCHANGED <<blocking, next, data, ret, me, camel, snake, other>>

\* `state?` on None, or `list.data.pop()?` on an empty vector: the stream ends.
PollEnd ==
  /\ ~blocking /\ pc = "idle"
  /\ \/ state = None
     \/ IsSome(state) /\ Unwrap(state).data = <<>>
  /\ pc' = "ended"
  /\ state' = None
  /\ UNCHANGED <<val, out, calls, pages, requests>>
  /\ StreamFrame

\* An item that is not the last of its page.
PollYield ==
  /\ ~blocking /\ pc = "idle" /\ IsSome(state)
  /\ LET list == Unwrap(state) IN
     /\ list.data # <<>>
     /\ ~IsExhausted(PopRest(list.data))
     /\ out' = Append(out, Ok(PopVal(list.data)))
     /\ state' = Some([list EXCEPT !.data = PopRest(list.data)])
  /\ UNCHANGED <<val, pc, calls, pages, requests>>
  /\ StreamFrame

\* The last item of a page without successor.
PollYieldFinal ==
  /\ ~blocking /\ pc = "idle" /\ IsSome(state)
  /\ LET list == Unwrap(state) IN
     /\ list.data # <<>>
     /\ IsExhausted(PopRest(list.data))
     /\ IsFinalPage(list)
     /\ out' = Append(out, Ok(PopVal(list.data)))
     /\ state' = None
  /\ UNCHANGED <<val, pc, calls, pages, requests>>
  /\ StreamFrame

\* The last item of a page with has_more: get_next dispatches client.get and
\* the closure suspends in resp.await, holding val and list.
PollFetch ==
  /\ ~blocking /\ pc = "idle" /\ IsSome(state)
  /\ Len(calls) < MaxFetches
  /\ LET list == Unwrap(state)
         v == PopVal(list.data) IN
     /\ list.data # <<>>
     /\ IsExhausted(PopRest(list.data))
     /\ ~IsFinalPage(list)
     /\ GetNextDispatches(list.url)
     /\ calls' = Append(calls, Call(Len(pages), list.url, Cursor(v), list.params, None))
     /\ requests' = requests \o Dispatch(me, Len(calls) + 1,
                                         GetNextTarget(list.url, Cursor(v), list.params))
     /\ val' = Some(v)
     /\ state' = Some([list EXCEPT !.data = PopRest(list.data)])
     /\ pc' = "awaiting"
  /\ UNCHANGED <<out, pages>>
  /\ StreamFrame

\* The last item of a page with has_more whose url lacks the prefix: get_next
\* returns the ready error, which the closure yields in place of the item.
PollUnsupported ==
  /\ ~blocking /\ pc = "idle" /\ IsSome(state)
  /\ Len(calls) < MaxFetches
  /\ LET list == Unwrap(state)
         v == PopVal(list.data) IN
     /\ list.data # <<>>
     /\ IsExhausted(PopRest(list.data))
     /\ ~IsFinalPage(list)
     /\ ~GetNextDispatches(list.url)
     /\ calls' = Append(calls, Call(Len(pages), list.url, Cursor(v), list.params,
                                   Some(Err(Unsupported))))
     /\ out' = out \o YieldOnErr(v, Unsupported)
     /\ state' = None
  /\ UNCHANGED <<val, pc, pages, requests>>
  /\ StreamFrame

\* resp.await completes with Ok(next_list).
AwaitOk ==
  /\ ~blocking /\ pc = "awaiting"
  /\ \E r \in TransportOutcomes(Len(calls), Unwrap(calls[Len(calls)].sent)) :
       /\ IsOk(r)
       /\ LET list == Unwrap(state)
              next_list == StampParamsAsync(r, list.params)[2] IN
          /\ state' = Some([next_list EXCEPT !.data = Reverse(next_list.data)])
          /\ out' = Append(out, Ok(Unwrap(val)))
          /\ pages' = Append(pages, next_list)
          /\ calls' = [calls EXCEPT ![Len(calls)].reply = Some(Ok(Len(pages) + 1))]
       /\ requests' = Answer(requests, me, Len(calls), r)
  /\ val' = None
  /\ pc' = "idle"
  /\ StreamFrame

\* resp.await completes with Err(e).
AwaitErr ==
  /\ ~blocking /\ pc = "awaiting"
  /\ \E r \in TransportOutcomes(Len(calls), Unwrap(calls[Len(calls)].sent)) :
       /\ IsErr(r)
       /\ out' = out \o YieldOnErr(Unwrap(val), r[2])
       /\ calls' = [calls EXCEPT ![Len(calls)].reply = Some(r)]
       /\ requests' = Answer(requests, me, Len(calls), r)
                        \o OnGetErr(Dispatch(me, Len(calls), Unwrap(calls[Len(calls)].sent))[1])
  /\ state' = None
  /\ val' = None
  /\ pc' = "idle"
  /\ UNCHANGED pages
  /\ StreamFrame

\* The consumer drops the stream, between two polls ("dropped") or while a
\* poll is pending in resp.await ("cancelled"): the unfold state and the
\* pending future go with it.
Abandon ==
  /\ ~blocking /\ pc \in {"idle", "awaiting"}
  /\ pc' = IF pc = "idle" THEN "dropped" ELSE "cancelled"
  /\ state' = None
  /\ val' = None
  /\ UNCHANGED <<out, calls, pages, requests>>
  /\ StreamFrame

\* ----------------------------------------------- blocking get_all: actions
BlockingFrame == UNCHANGED <<blocking, state, val, out, me, camel, snake, other>>

\* has_more, data non-empty, url with prefix: next.next(&client) reaches
\* client.get, which sends the request and blocks the thread for the response.
CollectFetch ==
  /\ blocking /\ pc = "loop" /\ ret = None
  /\ HasMore(next) /\ next.data # <<>>
  /\ GetNextDispatches(next.url)
  /\ Len(calls) < MaxFetches
  /\ calls' = Append(calls, Call(Len(pages), next.url,
                       Cursor(LastItem(next.data)), next.params, None))
  /\ requests' = requests \o Dispatch(me, Len(calls) + 1,
                              GetNextTarget(next.url, Cursor(LastItem(next.data)),
                                            next.params))
  /\ pc' = "blocked"
  /\ UNCHANGED <<next, data, ret, pages>>
  /\ BlockingFrame

\* client.get returns Ok: the page is stamped and the loop goes on with it.
CollectFetchOk ==
  /\ blocking /\ pc = "blocked"
  /\ \E r \in TransportOutcomes(Len(calls), Unwrap(calls[Len(calls)].sent)) :
       /\ IsOk(r)
       /\ LET resp == StampParamsBlocking(r, next.params)[2] IN
          /\ calls' = [calls EXCEPT ![Len(calls)].reply = Some(Ok(Len(pages) + 1))]
          /\ requests' = Answer(requests, me, Len(calls), r)
          /\ data' = Extend(data, next.data)
          /\ next' = resp
          /\ pages' = Append(pages, resp)
  /\ pc' = "loop"
  /\ UNCHANGED ret
  /\ BlockingFrame

\* client.get returns Err: `?` returns it from get_all.
CollectFetchErr ==
  /\ blocking /\ pc = "blocked"
  /\ \E r \in TransportOutcomes(Len(calls), Unwrap(calls[Len(calls)].sent)) :
       /\ IsErr(r)
       /\ calls' = [calls EXCEPT ![Len(calls)].reply = Some(r)]
       /\ requests' = Answer(requests, me, Len(calls), r)
                        \o OnGetErr(Dispatch(me, Len(calls), Unwrap(calls[Len(calls)].sent))[1])
       /\ ret' = Some(ReturnOnErr(data, r[2]))
  /\ pc' = "returned"
  /\ UNCHANGED <<next, data, pages>>
  /\ BlockingFrame

\* has_more, data non-empty, url without prefix.
CollectUnsupported ==
  /\ blocking /\ pc = "loop" /\ ret = None
  /\ HasMore(next) /\ next.data # <<>>
  /\ ~GetNextDispatches(next.url)
  /\ Len(calls) < MaxFetches
  /\ calls' = Append(calls, Call(Len(pages), next.url,
                       Cursor(LastItem(next.data)), next.params,
                       Some(Err(Unsupported))))
  /\ ret' = Some(ReturnOnErr(data, Unsupported))
  /\ pc' = "returned"
  /\ UNCHANGED <<next, data, pages, requests>>
  /\ BlockingFrame

\* has_more, data empty: List::next answers without a request.
CollectNextOfEmpty ==
  /\ blocking /\ pc = "loop" /\ ret = None
  /\ HasMore(next) /\ next.data = <<>>
  /\ data' = Extend(data, next.data)
  /\ next' = NextOfEmpty(next)
  /\ pages' = Append(pages, NextOfEmpty(next))
  /\ UNCHANGED <<ret, calls, requests, pc>>
  /\ BlockingFrame

\* has_more false: the loop breaks and the function returns Ok(data).
CollectBreak ==
  /\ blocking /\ pc = "loop" /\ ret = None
  /\ ~HasMore(next)
  /\ data' = Extend(data, next.data)
  /\ ret' = Some(Ok(Extend(data, next.data)))
  /\ pc' = "returned"
  /\ UNCHANGED <<next, calls, pages, requests>>
  /\ BlockingFrame

\* The caller runs the blocking get_all on the initial page of an ended
\* stream, against the server that answered the stream.
ReplayStart ==
  /\ ~blocking /\ pc = "ended" /\ me = 1
  /\ blocking' = TRUE
  /\ me' = 2
  /\ next' = pages[1]
  /\ data' = <<>>
  /\ ret' = None
  /\ calls' = <<>>
  /\ pages' = <<pages[1]>>
  /\ pc' = "loop"
  /\ UNCHANGED <<state, val, out, requests, camel, snake, other>>

Next ==
  \/ PollEnd
  \/ PollYield
  \/ PollYieldFinal
  \/ PollFetch
  \/ PollUnsupported
  \/ AwaitOk
  \/ AwaitErr
  \/ CollectFetch
  \/ CollectFetchOk
  \/ CollectFetchErr
  \/ CollectUnsupported
  \/ CollectNextOfEmpty
  \/ CollectBreak

Spec == Init /\ [][Next]_vars

\* The walks of Spec, and after an ended stream the blocking get_all over the
\* same chain.
NextReplay == Next \/ ReplayStart
SpecReplay == Init /\ [][NextReplay]_vars

\* ------------------------------------------------- helpers of the properties
\* The items as the stream yields them: each wrapped in Ok.
OkSeq(items) == [i \in 1..Len(items) |-> Ok(items[i])]

\* P1.data ++ P2.data ++ ... ++ Pn.data
RECURSIVE ConcatData(_)
ConcatData(ps) ==
  IF ps = <<>> THEN <<>> ELSE Head(ps).data \o ConcatData(Tail(ps))

IsPrefix(p, s) == Len(p) <= Len(s) /\ SubSeq(s, 1, Len(p)) = p

ButLast(s) == SubSeq(s, 1, Len(s) - 1)

Failed(c) == IsSome(c.reply) /\ IsErr(Unwrap(c.reply))
Succeeded(c) == IsSome(c.reply) /\ IsOk(Unwrap(c.reply))

AllPagesNonEmpty == \A k \in 1..Len(pages) : pages[k].data # <<>>
NoFailedCall == \A i \in 1..Len(calls) : ~Failed(calls[i])
YieldedAnError == \E i \in 1..Len(out) : IsErr(out[i])

\* ---------------------------------------------------------------------- C1
\* C1: over a chain of non-empty pages whose fetches all succeed, the stream
\* get_all yields the items of P1.data ++ ... ++ Pn.data, each once and in that
\* order: what it has yielded is always a prefix of the concatenation, and
\* when it has ended, it is the whole concatenation.
C1_StreamYieldsConcatenation ==
  (~blocking /\ AllPagesNonEmpty /\ NoFailedCall) =>
    /\ IsPrefix(out, OkSeq(ConcatData(pages)))
    /\ (pc = "ended" => out = OkSeq(ConcatData(pages)))

\* A walk over three pages has ended, the first page holding two different items.
C1_Witness ==
  /\ ~blocking /\ pc = "ended"
  /\ AllPagesNonEmpty /\ NoFailedCall
  /\ Len(pages) = 3
  /\ Len(pages[1].data) = 2
  /\ pages[1].data[1] # pages[1].data[2]
  /\ Len(out) >= 4

\* ---------------------------------------------------------------------- C2
\* C2: when the first page is non-empty with has_more and the request for
\* page 2 fails, the ended stream has yielded every item of P1.data in order
\* and then the error.
C2_AllOfFirstPageThenError ==
  (/\ ~blocking /\ pc = "ended"
   /\ Len(pages) = 1 /\ pages[1].data # <<>> /\ pages[1].has_more
   /\ Len(calls) = 1 /\ IsSome(calls[1].sent) /\ Failed(calls[1]))
  => out = OkSeq(pages[1].data) \o <<Unwrap(calls[1].reply)>>

\* ---------------------------------------------------------------------- C3
\* C3: in the blocking get_all a failed continuation fetch is the last call
\* made, and the function has returned that call's error (an Err carries no
\* items).
C3_CollectorFailsFast ==
  blocking =>
    \A i \in 1..Len(calls) :
      Failed(calls[i]) => (i = Len(calls) /\ ret = Some(Unwrap(calls[i].reply)))

\* The second fetch failed after a first page had been accumulated.
C3_Witness ==
  /\ blocking
  /\ Len(calls) = 2
  /\ IsSome(calls[2].sent) /\ Failed(calls[2])
  /\ data # <<>>
  /\ IsSome(ret)

\* ---------------------------------------------------------------------- C4
\* C4: a page with empty data and has_more = true makes the caller see an
\* error: a stream that ended on such a page has yielded an Err, and a
\* blocking get_all that met such a page has returned an Err.
C4_EmptyPageWithMoreIsError ==
  /\ (/\ ~blocking /\ pc = "ended"
      /\ pages[Len(pages)].data = <<>> /\ pages[Len(pages)].has_more)
     => YieldedAnError
  /\ (/\ blocking /\ IsSome(ret)
      /\ \E k \in 1..Len(pages) : pages[k].data = <<>> /\ pages[k].has_more)
     => IsErr(Unwrap(ret))

\* ---------------------------------------------------------------------- C5
\* C5: when the initial page has has_more = false the stream never calls
\* get_next, holds no other page, yields a prefix of the page's items and has
\* yielded exactly data.len() items (none for data = []) when it has ended.
C5_NoFetchWithoutMore ==
  (~blocking /\ ~pages[1].has_more) =>
    /\ calls = <<>>
    /\ Len(pages) = 1
    /\ pc # "awaiting"
    /\ IsPrefix(out, OkSeq(pages[1].data))
    /\ (pc = "ended" => Len(out) = Len(pages[1].data) /\ out = OkSeq(pages[1].data))

\* A stream over a single page of two items has ended.
C5_Witness ==
  /\ ~blocking /\ ~pages[1].has_more
  /\ pc = "ended"
  /\ Len(pages[1].data) = 2
  /\ Len(out) = 2

\* ---------------------------------------------------------------------- C6
\* TRUE when target carries the query parameter starting_after=id, ended by
\* the end of the target or by '&'.
HasStartingAfter(target, id) ==
  LET kv == StartingAfter \o id IN
  \E i \in 1..Len(target) :
    /\ i + Len(kv) - 1 <= Len(target)
    /\ SubSeq(target, i, i + Len(kv) - 1) = kv
    /\ i > 1 /\ target[i - 1] \in {"?", "&"}
    /\ (i + Len(kv) - 1 = Len(target) \/ target[i + Len(kv)] = "&")

\* C6: the i-th get_next call of a walk (stream or blocking, through
\* List::next) is made from the i-th page, passes the id of that page's last
\* item in server order, and a dispatched request carries it as starting_after.
C6_CursorOfLastItem ==
  \A i \in 1..Len(calls) :
    /\ i <= Len(pages)
    /\ pages[i].data # <<>>
    /\ calls[i].last_id = pages[i].data[Len(pages[i].data)].id
    /\ IsSome(calls[i].sent) =>
         HasStartingAfter(Unwrap(calls[i].sent), pages[i].data[Len(pages[i].data)].id)

\* Two calls were made by the blocking loop, from pages of two different
\* items each.
C6_Witness ==
  /\ blocking
  /\ Len(calls) = 2
  /\ Len(pages[1].data) = 2 /\ pages[1].data[1] # pages[1].data[2]
  /\ Len(pages[2].data) = 2 /\ pages[2].data[1] # pages[2].data[2]
  /\ IsSome(calls[2].sent)

\* ---------------------------------------------------------------------- C7
\* C7: a get_next call whose url lacks the prefix "/v1/" returns Unsupported
\* and sends nothing; a call whose url has the prefix sends a GET whose
\* target begins with the url less that prefix.
C7_PrefixCheckedAndRemoved ==
  \A i \in 1..Len(calls) :
    LET c == calls[i] IN
    IF StartsWith(c.url, V1)
    THEN /\ IsSome(c.sent)
         /\ IsPrefix(SubSeq(c.url, Len(V1) + 1, Len(c.url)), Unwrap(c.sent))
    ELSE /\ c.sent = None
         /\ c.reply = Some(Err(Unsupported))

\* ---------------------------------------------------------------------- C8
IsSuffix(t, s) == Len(t) <= Len(s) /\ SubSeq(s, Len(s) - Len(t) + 1, Len(s)) = t

\* TRUE when target is a tail of url (the stripped path), then the cursor
\* parameter introduced by '?' if that path has no '?' and by '&' otherwise,
\* then tail.
HasFormat(target, url, last_id, tail) ==
  \E k \in 0..Len(url) :
    LET path == SubSeq(url, k + 1, Len(url))
        sep == IF Contains(path, "?") THEN "&" ELSE "?"
    IN target = path \o <<sep>> \o StartingAfter \o last_id \o tail

\* C8 as stated: the target is the stripped path, the cursor parameter, and
\* whenever params is Some, "&" and the params string.
C8_ParamsAppendedWhenPresent ==
  \A i \in 1..Len(calls) :
    LET c == calls[i] IN
    IsSome(c.sent) =>
      HasFormat(Unwrap(c.sent), c.url, c.last_id,
                IF IsSome(c.params) THEN <<"&">> \o Unwrap(c.params) ELSE <<>>)

\* C8 amended: the target is the stripped path, the cursor parameter, and
\* whenever params is Some of a non-empty string, "&" and that string; for
\* None and for Some("") nothing follows the cursor parameter.
C8_ParamsAppendedWhenNonEmpty ==
  \A i \in 1..Len(calls) :
    LET c == calls[i] IN
    IsSome(c.sent) =>
      HasFormat(Unwrap(c.sent), c.url, c.last_id,
                IF IsSome(c.params) /\ Unwrap(c.params) # <<>>
                THEN <<"&">> \o Unwrap(c.params) ELSE <<>>)

\* A request for a url with a query string and params "l":
\* "w?x&starting_after=a&l".
C8_Witness ==
  /\ Len(calls) >= 1
  /\ calls[1].url = V1 \o <<"w", "?", "x">>
  /\ calls[1].last_id = <<"a">>
  /\ calls[1].params = Some(<<"l">>)
  /\ calls[1].sent = Some(<<"w", "?", "x", "&">> \o StartingAfter \o <<"a", "&", "l">>)

\* ---------------------------------------------------------------------- C9
\* C9: every page of a walk carries the params of the page before it, every
\* get_next call is given the initial page's params, and a dispatched request
\* ends with "&" and those params when they are a non-empty string.
C9_ParamsInvariant ==
  /\ \A k \in 2..Len(pages) : pages[k].params = pages[k - 1].params
  /\ \A i \in 1..Len(calls) :
       /\ calls[i].params = pages[1].params
       /\ (/\ IsSome(calls[i].sent)
           /\ IsSome(pages[1].params) /\ Unwrap(pages[1].params) # <<>>)
          => IsSuffix(<<"&">> \o Unwrap(pages[1].params), Unwrap(calls[i].sent))

\* A blocking walk with params "l" fetched two pages.
C9_Witness ==
  /\ blocking
  /\ pages[1].params = Some(<<"l">>)
  /\ Len(pages) = 3
  /\ Len(calls) = 2
  /\ Succeeded(calls[2])

\* --------------------------------------------------------------------- C10
\* C10 as stated: while the request for the next page is outstanding, every
\* item of the pages so far, the last one included, has been yielded.
C10_FetchAfterLastItemYielded ==
  (~blocking /\ pc = "awaiting") => out = OkSeq(ConcatData(pages))

\* C10 amended: while the request for the next page is outstanding, every
\* item of the pages so far except the very last has been yielded, in order,
\* and that last item has been removed from the buffer, which is empty, and is
\* held by the suspended step.
C10_FetchAfterLastItemRemoved ==
  (~blocking /\ pc = "awaiting") =>
    /\ ConcatData(pages) # <<>>
    /\ out = OkSeq(ButLast(ConcatData(pages)))
    /\ val = Some(ConcatData(pages)[Len(ConcatData(pages))])
    /\ IsSome(state) /\ Unwrap(state).data = <<>>

\* The request for a third page is outstanding, the second page holding two
\* items.
C10_Witness ==
  /\ ~blocking /\ pc = "awaiting"
  /\ Len(pages) = 2
  /\ Len(pages[2].data) = 2
  /\ Len(out) >= 2


\* --------------------------------------------------------------------- C11
\* The walk is complete: the stream has ended, or the blocking get_all has
\* returned.
Complete == (~blocking /\ pc = "ended") \/ (blocking /\ IsSome(ret))

\* C11: get_next is called once per page boundary and never from a page with
\* has_more = false: the i-th call is made from the i-th page, which has
\* has_more; and a complete walk over n non-empty pages whose fetches all
\* succeeded has made exactly n - 1 calls, each of them a dispatched request,
\* and its last page has has_more = false.
C11_OneFetchPerBoundary ==
  /\ \A i \in 1..Len(calls) : i <= Len(pages) /\ pages[i].has_more
  /\ (Complete /\ AllPagesNonEmpty /\ NoFailedCall) =>
       /\ Len(calls) = Len(pages) - 1
       /\ \A i \in 1..Len(calls) : IsSome(calls[i].sent)
       /\ ~pages[Len(pages)].has_more

\* The two-page scenario: [a, b] with has_more, then a one-item page without;
\* the stream has ended after three items and one call, with cursor "b".
C11_Witness ==
  /\ ~blocking /\ pc = "ended"
  /\ Len(pages) = 2
  /\ pages[1].data = <<[id |-> <<"a">>], [id |-> <<"b">>]>>
  /\ Len(pages[2].data) = 1 /\ ~pages[2].has_more
  /\ Len(out) = 3
  /\ Len(calls) = 1
  /\ calls[1].last_id = <<"b">>
  /\ Succeeded(calls[1])


\* --------------------------------------------------------------------- C12
\* The requests made on the Client for get_next call i of this walk.
RequestsOf(i) == {j \in 1..Len(requests) : requests[j].walk = me /\ requests[j].call = i}

\* C12: a get_next call whose url begins with "/v1/" makes exactly one
\* client.get request, for the target it built, whether that request has
\* succeeded or failed, and a failure of the request is the call's result
\* unchanged; a call whose url lacks the prefix makes none.
C12_OneRequestPerCall ==
  \A i \in 1..Len(calls) :
    IF StartsWith(calls[i].url, V1)
    THEN /\ Cardinality(RequestsOf(i)) = 1
         /\ \A j \in RequestsOf(i) :
              /\ Some(requests[j].target) = calls[i].sent
              /\ (calls[i].reply = None) = (requests[j].outcome = None)
              /\ (IsSome(requests[j].outcome) /\ IsErr(Unwrap(requests[j].outcome)))
                 => calls[i].reply = requests[j].outcome
              /\ (IsSome(requests[j].outcome) /\ IsOk(Unwrap(requests[j].outcome)))
                 => Succeeded(calls[i])
    ELSE RequestsOf(i) = {}

\* The second request of a stream failed after the first had succeeded.
C12_Witness ==
  /\ ~blocking
  /\ Len(calls) = 2 /\ Len(requests) = 2
  /\ Succeeded(calls[1])
  /\ Failed(calls[2]) /\ IsSome(calls[2].sent)
  /\ requests[2].outcome = calls[2].reply


\* --------------------------------------------------------------------- C13
\* C13: a blocking get_all run over the chain of pages of an ended stream
\* whose fetches all succeeded asks for nothing the chain does not hold, and
\* returns Ok of exactly the items the stream yielded, which are the data of
\* the pages concatenated in fetch order.
C13_CollectorEqualsStream ==
  (Replaying /\ ~YieldedAnError) =>
    /\ (pc = "loop" /\ ret = None /\ HasMore(next) /\ next.data # <<>>) =>
         /\ GetNextDispatches(next.url)
         /\ TransportOutcomes(Len(calls) + 1,
              GetNextTarget(next.url, Cursor(LastItem(next.data)), next.params)) # {}
    /\ pc = "blocked" =>
         TransportOutcomes(Len(calls), Unwrap(calls[Len(calls)].sent)) # {}
    /\ IsSome(ret) =>
         /\ IsOk(Unwrap(ret))
         /\ OkSeq(Unwrap(ret)[2]) = out
         /\ Unwrap(ret)[2] = ConcatData(pages)

\* The blocking get_all has returned after three pages that the stream had
\* walked, the first two items being different.
C13_Witness ==
  /\ Replaying /\ ~YieldedAnError
  /\ IsSome(ret)
  /\ Len(pages) = 3
  /\ Len(out) >= 4
  /\ out[1] # out[2]


\* --------------------------------------------------------------------- C15
\* What the characterisation gives for character number pos of str: an
\* uppercase letter becomes its lowercase letter, with '_' in front exactly
\* when it is not the first character and the character after it exists and
\* is not uppercase; any other character is copied.
SnakePiece(str, pos) ==
  IF IsUppercase(str[pos])
  THEN IF pos > 1 /\ pos < Len(str) /\ ~IsUppercase(str[pos + 1])
       THEN <<"_", ToLowercase(str[pos])>>
       ELSE <<ToLowercase(str[pos])>>
  ELSE <<str[pos]>>

RECURSIVE SnakePieces(_, _)
SnakePieces(str, pos) ==
  IF pos > Len(str) THEN <<>> ELSE SnakePiece(str, pos) \o SnakePieces(str, pos + 1)

HasUppercase(str) == \E k \in 1..Len(str) : IsUppercase(str[k])

\* C15: to_snakecase returns the pieces of the characterisation in order; an
\* argument without uppercase letters is returned unchanged; the result has
\* no uppercase letter and to_snakecase maps it to itself; and "CamelCase",
\* "XMLHttpRequest" and "UPPER" give "camel_case", "xml_http_request" and
\* "upper".
C15_SnakecaseCharacterised ==
  IsSome(snake) =>
    /\ Unwrap(snake) = SnakePieces(camel, 1)
    /\ ~HasUppercase(camel) => Unwrap(snake) = camel
    /\ ~HasUppercase(Unwrap(snake))
    /\ ToSnakecase(Unwrap(snake)) = Unwrap(snake)
    /\ camel = <<"C", "a", "m", "e", "l", "C", "a", "s", "e">>
         => Unwrap(snake) = <<"c", "a", "m", "e", "l", "_", "c", "a", "s", "e">>
    /\ camel = <<"X", "M", "L", "H", "t", "t", "p", "R", "e", "q", "u", "e", "s", "t">>
         => Unwrap(snake) = <<"x", "m", "l", "_", "h", "t", "t", "p", "_", "r", "e", "q", "u", "e", "s", "t">>
    /\ camel = <<"U", "P", "P", "E", "R">>
         => Unwrap(snake) = <<"u", "p", "p", "e", "r">>

\* to_snakecase("XMLHttpRequest") has returned "xml_http_request".
C15_Witness ==
  /\ camel = <<"X", "M", "L", "H", "t", "t", "p", "R", "e", "q", "u", "e", "s", "t">>
  /\ snake = Some(<<"x", "m", "l", "_", "h", "t", "t", "p", "_", "r", "e", "q", "u", "e", "s", "t">>)


\* --------------------------------------------------------------------- C16
\* C16: for a get_next call whose url is "/v1/" followed by rest, the target
\* of the GET is exactly rest followed by the query suffix get_next appends
\* ('?' or '&', "starting_after=" and the cursor, then any params), also
\* when rest itself begins with "/v1/".
C16_PrefixRemovedOnce ==
  \A i \in 1..Len(calls) :
    LET c == calls[i]
        rest == SubSeq(c.url, Len(V1) + 1, Len(c.url))
    IN StartsWith(c.url, V1) =>
         /\ IsSome(c.sent)
         /\ \E sep \in {"?", "&"} :
              IsPrefix(rest \o <<sep>> \o StartingAfter \o c.last_id,
                       Unwrap(c.sent))


\* A stream get_all whose consumer may drop it at any point.
NextAbandon == Next \/ Abandon
SpecAbandon == Init /\ [][NextAbandon]_vars

\* --------------------------------------------------------------------- C17
\* The number of items of pages 1..m.
RECURSIVE ItemsThrough(_, _)
ItemsThrough(ps, m) == IF m = 0 THEN 0 ELSE ItemsThrough(ps, m - 1) + Len(ps[m].data)

\* The positions of the yielded sequence that hold the last item of a page.
PageFinalItems ==
  {j \in 1..Len(out) :
     /\ IsOk(out[j])
     /\ \E m \in 1..Len(pages) :
          pages[m].data # <<>> /\ j = ItemsThrough(pages, m)}

\* A step that removes an item and leaves the buffer non-empty yields that
\* item, issues no fetch and keeps the page, less the item, as state.
StepKeepsPage ==
  (/\ ~blocking /\ pc = "idle" /\ IsSome(state)
   /\ Len(Unwrap(state).data) > 1
   /\ pc' \notin {"dropped", "cancelled"})
    => /\ calls' = calls /\ requests' = requests /\ pages' = pages
       /\ out' = Append(out, Ok(PopVal(Unwrap(state).data)))
       /\ state' = Some([Unwrap(state) EXCEPT !.data = PopRest(Unwrap(state).data)])

\* Between two polls, and after the stream ended or was dropped between two
\* polls, the consumer has caused at most as many requests as it has taken
\* page-final items.
FetchesWithinPageFinals ==
  (~blocking /\ pc \in {"idle", "ended", "dropped"})
    => Len(requests) <= Cardinality(PageFinalItems)

\* Nothing is fetched for a dropped stream.
NoFetchAfterDrop ==
  pc \in {"dropped", "cancelled"}
    => (calls' = calls /\ requests' = requests /\ out' = out)

\* C17: a production step that leaves the buffer non-empty after removing
\* its item issues no fetch and keeps the same page as state; a consumer that
\* has taken k items has caused at most as many fetches as there are
\* page-final items among them; and a dropped walk fetches nothing afterwards.
C17_FetchesOnlyAtPageEnds ==
  /\ [][StepKeepsPage /\ NoFetchAfterDrop]_vars
  /\ []FetchesWithinPageFinals

\* The two parts of C17 about steps, apart from the count.
C17_StepsOnly == [][StepKeepsPage /\ NoFetchAfterDrop]_vars

\* The count of C17 on walks none of whose fetches failed.
C17_CountWithoutFailure == YieldedAnError \/ FetchesWithinPageFinals


\* ------------------------------------------------- List::next called directly
\* A caller holds the page self and is about to call self.next(&client).
InitDirect(self) ==
  /\ blocking = FALSE
  /\ state = None
  /\ val = None
  /\ pc = "direct"
  /\ out = <<>>
  /\ next = self
  /\ data = <<>>
  /\ ret = None
  /\ calls = <<>>
  /\ pages = <<self>>
  /\ InitShared

\* self.next(&client): with an item in self.data the get_next call for the
\* last item's cursor, which sends the request and returns the pending
\* future (or, the url lacking the prefix, the ready error); without one the
\* ready page.
DirectNext ==
  /\ pc = "direct" /\ ret = None
  /\ IF next.data = <<>>
     THEN /\ ret' = Some(Ok(NextOfEmpty(next)))
          /\ pages' = Append(pages, NextOfEmpty(next))
          /\ UNCHANGED <<calls, requests, pc>>
     ELSE LET last_id == Cursor(LastItem(next.data)) IN
          IF ~GetNextDispatches(next.url)
          THEN /\ ret' = Some(Err(Unsupported))
               /\ calls' = Append(calls, Call(1, next.url, last_id, next.params,
                                              Some(Err(Unsupported))))
               /\ UNCHANGED <<pages, requests, pc>>
          ELSE /\ calls' = Append(calls, Call(1, next.url, last_id, next.params, None))
               /\ requests' = requests
                    \o Dispatch(me, 1, GetNextTarget(next.url, last_id, next.params))
               /\ pc' = "pending"
               /\ UNCHANGED <<pages, ret>>
  /\ UNCHANGED <<blocking, state, val, out, next, data, me, camel, snake, other>>

\* The response arrives and the future of self.next(&client) completes with
\* it, a page stamped with self.params.
DirectResponse ==
  /\ pc = "pending"
  /\ \E r \in ClientGetOutcomes :
       LET resp == StampParamsAsync(r, next.params) IN
       /\ ret' = Some(resp)
       /\ calls' = [calls EXCEPT ![1].reply = IF IsOk(r) THEN Some(Ok(2)) ELSE Some(r)]
       /\ requests' = IF IsOk(r)
                      THEN Answer(requests, me, 1, r)
                      ELSE Answer(requests, me, 1, r) \o OnGetErr(requests[1])
       /\ pages' = IF IsOk(r) THEN Append(pages, resp[2]) ELSE pages
  /\ pc' = "direct"
  /\ UNCHANGED <<blocking, state, val, out, next, data, me, camel, snake, other>>

\* The walks of Spec and the direct calls of List::next.
NextDirect == Next \/ DirectNext \/ DirectResponse
SpecDirect == (Init \/ \E self \in Lists : InitDirect(self)) /\ [][NextDirect]_vars

\* --------------------------------------------------------------------- C18
\* The page C18 describes for a receiver: no data, has_more false, and the
\* receiver's url, params and total_count.
EmptySuccessor(self) ==
  [data |-> <<>>, has_more |-> FALSE, total_count |-> self.total_count,
   url |-> self.url, params |-> self.params]

\* List::next called on a page without data, has_more true or false.
NextOnEmptyPage ==
  (pc = "direct" /\ ret = None /\ next.data = <<>>)
    => /\ ret' = Some(Ok(EmptySuccessor(next)))
       /\ calls' = calls
       /\ requests' = requests

\* An iteration of the blocking loop on a page without data: with has_more
\* it requests nothing and goes on with a page without data and without
\* has_more, on which the iteration that follows is the last; without
\* has_more it is the last itself.
LoopOnEmptyPage ==
  (blocking /\ ret = None /\ next.data = <<>>)
    => /\ calls' = calls
       /\ requests' = requests
       /\ IF next.has_more
          THEN /\ ret' = None
               /\ next' = EmptySuccessor(next)
               /\ data' = data
          ELSE ret' = Some(Ok(data))

\* C18: List::next on a page whose data is empty sends no request and
\* returns Ok of a page with empty data, has_more false and the receiver's
\* url, params and total_count, whatever the receiver's has_more; and once
\* the blocking get_all loop holds an empty page it ends in that iteration or
\* in the one after it, without a request.
C18_NextOfEmptyPage == [][NextOnEmptyPage /\ LoopOnEmptyPage]_vars

\* List::next has returned for a receiver without data whose has_more is true.
C18_Witness ==
  /\ pc = "direct"
  /\ next.data = <<>> /\ next.has_more
  /\ ret = Some(Ok(EmptySuccessor(next)))
  /\ requests = <<>>


\* ------------------------------------------- two streams sharing one Client
\* What a stream owns: the unfold state, the item and page held across
\* resp.await, its position, and the histories of its yields, calls and pages.
Owned ==
  [state |-> state, val |-> val, pc |-> pc, out |-> out, calls |-> calls,
   pages |-> pages]

\* The initial pages of the two streams.
TwoWalkLists ==
  {l \in Lists :
     /\ l.has_more /\ Len(l.data) = 1 /\ l.total_count = None
     /\ \/ /\ l.url = <<"/", "v", "1", "/", "w">> /\ l.params = None
           /\ Id(l.data[1]) = <<"a">>
        \/ /\ l.url = <<"/", "v", "1", "/", "w", "?", "x">> /\ l.params = Some(<<"l">>)
           /\ Id(l.data[1]) = <<"b">>}

\* self1.get_all(&client) and self2.get_all(&client) on one Client, neither
\* stream polled yet.
InitTwo(self1, self2) ==
  /\ blocking = FALSE
  /\ state = Some([self1 EXCEPT !.data = Reverse(self1.data)])
  /\ val = None
  /\ pc = "idle"
  /\ out = <<>>
  /\ next = DefaultList
  /\ data = <<>>
  /\ ret = None
  /\ calls = <<>>
  /\ pages = <<self1>>
  /\ me = 1
  /\ requests = <<>>
  /\ camel = <<>>
  /\ snake = None
  /\ other = Some([state |-> Some([self2 EXCEPT !.data = Reverse(self2.data)]),
                   val |-> None, pc |-> "idle", out |-> <<>>, calls |-> <<>>,
                   pages |-> <<self2>>])

\* The consumer turns from the one stream to the other: the next poll, or the
\* response that arrives next, is the other stream's.
Switch ==
  /\ ~blocking /\ IsSome(other)
  /\ state' = Unwrap(other).state
  /\ val' = Unwrap(other).val
  /\ pc' = Unwrap(other).pc
  /\ out' = Unwrap(other).out
  /\ calls' = Unwrap(other).calls
  /\ pages' = Unwrap(other).pages
  /\ other' = Some(Owned)
  /\ me' = 3 - me
  /\ UNCHANGED <<blocking, next, data, ret, requests, camel, snake>>

\* One stream alone, or two streams with their steps interleaved in any order.
NextTwo ==
  \/ PollEnd
  \/ PollYield
  \/ PollYieldFinal
  \/ PollFetch
  \/ PollUnsupported
  \/ AwaitOk
  \/ AwaitErr
  \/ Switch

SpecTwo ==
  /\ \/ \E self \in Lists : InitStream(self)
     \/ \E self1, self2 \in TwoWalkLists : InitTwo(self1, self2)
  /\ [][NextTwo]_vars

\* --------------------------------------------------------------------- C14
\* The streams there are, each with its number.
Walks ==
  {<<me, Owned>>} \cup (IF IsSome(other) THEN {<<3 - me, Unwrap(other)>>} ELSE {})

\* The items of W's page in hand that W has not yielded, the one held across
\* resp.await included.
Unyielded(W) ==
  (IF IsSome(W.state) THEN Len(Unwrap(W.state).data) ELSE 0)
    + (IF W.pc = "awaiting" THEN 1 ELSE 0)

\* What a stream alone has yielded when it has walked the pages W.pages with
\* the replies of W.calls: the items of the pages in order, up to those of
\* the page in hand not yet yielded; and after a failed call, the items less
\* the last one, then the error.
YieldsAlone(W) ==
  LET all == ConcatData(W.pages) IN
  IF W.calls # <<>> /\ Failed(W.calls[Len(W.calls)])
  THEN OkSeq(ButLast(all)) \o <<Unwrap(W.calls[Len(W.calls)].reply)>>
  ELSE OkSeq(SubSeq(all, 1, Len(all) - Unyielded(W)))

\* The requests of walk w for its call i, and those of walk w not yet answered.
RequestsOfWalk(w, i) ==
  {j \in 1..Len(requests) : requests[j].walk = w /\ requests[j].call = i}
Outstanding(w) ==
  {j \in 1..Len(requests) : requests[j].walk = w /\ requests[j].outcome = None}

\* C14: of two streams on one Client, polled in any order, each has yielded
\* what a stream alone yields over its own pages and replies; the page in hand
\* is its own; each of its calls was made from its own page, with that page's
\* url, params and last item's cursor, and sent one request with that target;
\* the page a call returned is the answer to that request of that walk; and
\* a walk has a request outstanding only while it awaits it, and never two.
C14_WalksDoNotInterfere ==
  ~blocking =>
    \A wW \in Walks :
      LET w == wW[1]
          W == wW[2]
      IN /\ W.out = YieldsAlone(W)
         /\ IsSome(W.state) =>
              [Unwrap(W.state) EXCEPT !.data = <<>>]
                = [W.pages[Len(W.pages)] EXCEPT !.data = <<>>]
         /\ \A i \in 1..Len(W.calls) :
              LET c == W.calls[i]
                  from == W.pages[i] IN
              /\ c.page = i
              /\ c.url = from.url /\ c.params = from.params
              /\ c.last_id = Cursor(LastItem(from.data))
              /\ IsSome(c.sent) =>
                   /\ Unwrap(c.sent) = GetNextTarget(from.url, Cursor(LastItem(from.data)),
                                                     from.params)
                   /\ Cardinality(RequestsOfWalk(w, i)) = 1
                   /\ \A j \in RequestsOfWalk(w, i) :
                        /\ requests[j].target = Unwrap(c.sent)
                        /\ requests[j].outcome = None <=> c.reply = None
                        /\ Failed(c) => requests[j].outcome = c.reply
                        /\ Succeeded(c) =>
                             /\ IsSome(requests[j].outcome)
                             /\ W.pages[i + 1]
                                  = StampParamsAsync(Unwrap(requests[j].outcome),
                                                     from.params)[2]
              /\ c.sent = None => RequestsOfWalk(w, i) = {}
         /\ Cardinality(Outstanding(w)) = (IF W.pc = "awaiting" THEN 1 ELSE 0)
         /\ \A j \in 1..Len(requests) :
              requests[j].walk = w => requests[j].call \in 1..Len(W.calls)

\* Both streams have ended after two fetches each, the four requests having
\* gone out in turns.
C14_Witness ==
  /\ IsSome(other)
  /\ pc = "ended" /\ Unwrap(other).pc = "ended"
  /\ Len(requests) = 4
  /\ requests[1].walk # requests[2].walk
  /\ requests[2].walk # requests[3].walk
  /\ requests[3].walk # requests[4].walk
  /\ out # Unwrap(other).out

====
